---- MODULE Spec2Model ----
(***************************************************************************)
(* A model of the PDF to Markdown converter of src/main.py: the text       *)
(* normaliser clean_text, the per-page renderer process_single_page, the   *)
(* admission middleware limit_upload_size, the rate limited handler        *)
(* convert_pdf and the process pool the page tasks run in.                 *)
(*                                                                         *)
(* A Python str is a sequence of characters; a character is a one-letter   *)
(* TLA+ string, except U+00AD (soft hyphen), written SHY.                  *)
(***************************************************************************)
EXTENDS Integers, Sequences, FiniteSets, TLC

VARIABLES
    text,        \* SpecClean: the argument of clean_text
    cleaned,     \* SpecClean: whether clean_text was called, and what it returned
    page,        \* SpecPage: the single-page document handed to process_single_page
    rendered,    \* SpecPage: whether process_single_page was called, its locals and
                 \* what it returned
    req,         \* Spec: per connection, the request in progress and what the code
                 \* did for it
    queue,       \* Spec: the page tasks submitted to executor and not yet started
    running,     \* Spec: the page tasks executor's worker processes are executing
    hits         \* Spec: limiter's count of admitted requests in the current window

vars == <<text, cleaned, page, rendered, req, queue, running, hits>>
server == <<req, queue, running, hits>>
pure == <<text, cleaned, page, rendered>>

-----------------------------------------------------------------------------
(* Characters and the classes the code's regular expressions and str       *)
(* methods use.                                                            *)

SHY == "<U+00AD>"
NL == "\n"

Lower == {"a", "b", "c", "d", "e", "f", "r", "x", "y"}
Upper == {"P", "T", "C"}
Digits == {"0", "1", "2", "3", "4", "5", "6", "7", "8", "9"}
\* \s of re and the characters str.split() and str.strip() treat as blank
White == {" ", NL, "\t"}
\* \w of re
WordChars == Lower \cup Upper \cup Digits \cup {"_"}

-----------------------------------------------------------------------------
(* Sequence helpers standing for Python's str operations.                  *)

RECURSIVE Concat(_)
\* "".join(parts)
Concat(parts) ==
    IF parts = <<>> THEN <<>> ELSE Head(parts) \o Concat(Tail(parts))

RECURSIVE Join(_, _)
\* sep.join(parts)
Join(parts, sep) ==
    IF parts = <<>> THEN <<>>
    ELSE IF Len(parts) = 1 THEN parts[1]
    ELSE parts[1] \o sep \o Join(Tail(parts), sep)

\* s.replace(c, '') for each character c of chars
Remove(s, chars) == LET keep(c) == c \notin chars IN SelectSeq(s, keep)

RECURSIVE Strip(_)
\* s.strip()
Strip(s) ==
    IF s = <<>> THEN <<>>
    ELSE IF Head(s) \in White THEN Strip(Tail(s))
    ELSE IF s[Len(s)] \in White THEN Strip(SubSeq(s, 1, Len(s) - 1))
    ELSE s

RECURSIVE Split(_, _)
\* s.split(): the maximal runs of non-blank characters; cur is the run being read
Split(s, cur) ==
    IF s = <<>> THEN (IF cur = <<>> THEN <<>> ELSE <<cur>>)
    ELSE IF Head(s) \in White
         THEN (IF cur = <<>> THEN <<>> ELSE <<cur>>) \o Split(Tail(s), <<>>)
    ELSE Split(Tail(s), Append(cur, Head(s)))

RECURSIVE RunEnd(_, _, _)
\* the index after the maximal run of characters of class cls starting at i
RunEnd(s, i, cls) ==
    IF i <= Len(s) /\ s[i] \in cls THEN RunEnd(s, i + 1, cls) ELSE i

\* whether s[i..j-1] holds a character of chars
HasIn(s, i, j, chars) == \E k \in i..(j - 1) : s[k] \in chars

-----------------------------------------------------------------------------
(* clean_text, src/main.py 77-83.                                          *)

\* (\w+)-\s*\n\s*(\w+) tried at position i: 0 when it does not match there, else
\* <<end of group 1, start of group 2, end of the match>> (ends exclusive). \w+ and
\* \s* are greedy and the character after each run is of another class, so each takes
\* its maximal run; \s*\n\s* is a blank run that holds a line break.
HyphenMatch(s, i) ==
    LET w1 == RunEnd(s, i, WordChars)
        b0 == w1 + 1
        b1 == RunEnd(s, b0, White)
        w2 == RunEnd(s, b1, WordChars)
    IN  IF /\ w1 > i
           /\ w1 <= Len(s) /\ s[w1] = "-"
           /\ HasIn(s, b0, b1, {NL})
           /\ w2 > b1
        THEN <<w1, b1, w2>>
        ELSE <<>>

RECURSIVE HyphenSub(_, _)
\* re.sub(r'(\w+)-\s*\n\s*(\w+)', r'\1\2', s) from position i on: matches are taken
\* leftmost first and do not overlap
HyphenSub(s, i) ==
    IF i > Len(s) THEN <<>>
    ELSE LET m == HyphenMatch(s, i)
         IN  IF m = <<>> THEN <<s[i]>> \o HyphenSub(s, i + 1)
             ELSE SubSeq(s, i, m[1] - 1) \o SubSeq(s, m[2], m[3] - 1)
                  \o HyphenSub(s, m[3])

\* (?<=[a-z])\s(?=[a-z]{2,}) at position i
GapMatch(s, i) ==
    /\ s[i] \in White
    /\ i > 1 /\ s[i - 1] \in Lower
    /\ i + 2 <= Len(s) /\ s[i + 1] \in Lower /\ s[i + 2] \in Lower

\* a plausible slip of line 82: the match is replaced by '' and the space is lost
GapReplacementEmpty == <<>>

\* what the match of GapMatch is replaced by: the ' ' of line 82
GapReplacement == <<" ">>

\* re.sub(r'(?<=[a-z])\s(?=[a-z]{2,})', ' ', s): the look-arounds consume nothing, so
\* every matching position of s is replaced
GapSub(s) ==
    Concat([i \in 1..Len(s) |-> IF GapMatch(s, i) THEN GapReplacement ELSE <<s[i]>>])

clean_text(t) ==
    IF t = <<>> THEN <<>>
    ELSE LET t1 == HyphenSub(t, 1)
             t2 == Remove(t1, {SHY})
             t3 == GapSub(t2)
         IN  Join(Split(t3, <<>>), <<" ">>)

-----------------------------------------------------------------------------
(* process_single_page, src/main.py 85-144.  What PyMuPDF finds on the page *)
(* is the page's input: the tables of each detection strategy (a grid of   *)
(* cells and a bounding box each; a cell that is None is the empty string, *)
(* both are falsy), the text blocks, and whether a PyMuPDF call raises.    *)
(* A rectangle is <<x0, y0, x1, y1>>.                                      *)

\* the limits of the validation heuristic, line 118
DigitLimit == 5
ResidueLimit == 200
\* the least stripped length a text block is kept above, line 132
MinBlockLen == 5

\* fitz.Rect.intersects: neither rectangle is empty and the intersection is not
IsEmptyRect(r) == r[1] >= r[3] \/ r[2] >= r[4]
Max2(a, b) == IF a >= b THEN a ELSE b
Min2(a, b) == IF a <= b THEN a ELSE b
Intersects(a, b) ==
    /\ ~IsEmptyRect(a)
    /\ ~IsEmptyRect(b)
    /\ ~IsEmptyRect(<<Max2(a[1], b[1]), Max2(a[2], b[2]),
                      Min2(a[3], b[3]), Min2(a[4], b[4])>>)

\* str(n) of a natural number
RECURSIVE ToDec(_)
ToDec(n) ==
    LET d == <<"0", "1", "2", "3", "4", "5", "6", "7", "8", "9">>
    IN  IF n < 10 THEN <<d[n + 1]>> ELSE ToDec(n \div 10) \o <<d[(n % 10) + 1]>>

\* s.replace("\n", " ")
NoBreaks(s) == [i \in 1..Len(s) |-> IF s[i] = NL THEN " " ELSE s[i]]

\* row[i] and str(row[i]).strip(), as a truth value (line 104)
CellFilled(c) == c # <<>> /\ Strip(c) # <<>>

\* line 104: the columns that hold something in some row
valid_cols(data) ==
    [i \in 1..Len(data[1]) |-> \E r \in 1..Len(data) : CellFilled(data[r][i])]

RECURSIVE KeepValid(_, _, _)
\* lines 108-109: the cleaned cells of the valid columns, from column i on
KeepValid(row, valid, i) ==
    IF i > Len(valid) THEN <<>>
    ELSE (IF valid[i]
          THEN <<IF row[i] # <<>> THEN Strip(NoBreaks(row[i])) ELSE <<>>>>
          ELSE <<>>) \o KeepValid(row, valid, i + 1)

RECURSIVE RenderRows(_, _, _)
\* lines 107-114, from the rows still to render
RenderRows(rows, valid, header_done) ==
    IF rows = <<>> THEN <<>>
    ELSE LET clean_row == KeepValid(Head(rows), valid, 1)
             line == <<"|", " ">> \o Join(clean_row, <<" ", "|", " ">>)
                     \o <<" ", "|", NL>>
             rule == <<"|", " ">>
                     \o Join([i \in 1..Len(clean_row) |-> <<"-", "-", "-">>],
                             <<" ", "|", " ">>)
                     \o <<" ", "|", NL>>
         IN  IF \A i \in 1..Len(clean_row) : clean_row[i] = <<>>
             THEN RenderRows(Tail(rows), valid, header_done)
             ELSE line \o (IF header_done THEN <<>> ELSE rule)
                  \o RenderRows(Tail(rows), valid, TRUE)

\* lines 102-114: the markdown of one detected table ("" when extract() is empty)
TableMarkdown(data) ==
    IF data = <<>> THEN <<>> ELSE RenderRows(data, valid_cols(data), FALSE)

\* line 116
Residue(md) == Remove(md, {"|", "-"})

\* line 117
DigitCount(s) == Cardinality({i \in 1..Len(s) : s[i] \in Digits})

\* a plausible slip of line 118: both conditions are required
HeuristicBoth(digit_count, len) == digit_count > DigitLimit /\ len < ResidueLimit

\* line 118, with the residue's digit count and length
HeuristicOk(digit_count, len) == digit_count > DigitLimit \/ len < ResidueLimit

\* lines 115-118: a table is kept when it renders to something and passes
TableAccepted(data) ==
    LET md == TableMarkdown(data)
        all_text == Residue(md)
    IN  md # <<>> /\ HeuristicOk(DigitCount(all_text), Len(all_text))

\* lines 94-96: the tables of the "lines" strategy, else those of the "text" one
FoundTables(p) == IF p.lines_tabs # <<>> THEN p.lines_tabs ELSE p.text_tabs

AcceptedTables(p) ==
    LET ok(t) == TableAccepted(t.data) IN SelectSeq(FoundTables(p), ok)

\* lines 98-120
table_markdowns(p) ==
    LET acc == AcceptedTables(p)
    IN  [i \in 1..Len(acc) |-> TableMarkdown(acc[i].data)]

table_bboxes(p) ==
    LET acc == AcceptedTables(p) IN [i \in 1..Len(acc) |-> acc[i].bbox]

\* the sort key of line 124, (b[1], b[0]), compared as Python compares tuples
KeyLess(a, b) ==
    \/ a.bbox[2] < b.bbox[2]
    \/ a.bbox[2] = b.bbox[2] /\ a.bbox[1] < b.bbox[1]

RECURSIVE InsertBlock(_, _)
\* b put after every element of the sorted s that is not greater: the sort is stable
InsertBlock(s, b) ==
    IF s = <<>> THEN <<b>>
    ELSE IF KeyLess(b, Head(s)) THEN <<b>> \o s
    ELSE <<Head(s)>> \o InsertBlock(Tail(s), b)

RECURSIVE SortBlocks(_)
\* line 124
SortBlocks(bs) ==
    IF bs = <<>> THEN <<>>
    ELSE InsertBlock(SortBlocks(SubSeq(bs, 1, Len(bs) - 1)), bs[Len(bs)])

\* a plausible slip of line 132: a text of exactly MinBlockLen characters is kept
LongEnoughInclusive(stripped) == stripped # <<>> /\ Len(stripped) >= MinBlockLen

\* the length test of lines 131-132 on the stripped text of a block
LongEnough(stripped) == stripped # <<>> /\ Len(stripped) > MinBlockLen

\* lines 128-132: whether a block goes into the page's text
BlockKept(b, bboxes) ==
    /\ ~\E i \in 1..Len(bboxes) : Intersects(b.bbox, bboxes[i])
    /\ LongEnough(Strip(b.text))

\* lines 123-133
page_text_parts(p) ==
    LET bboxes == table_bboxes(p)
        keep(b) == BlockKept(b, bboxes)
        kept == SelectSeq(SortBlocks(p.blocks), keep)
    IN  [i \in 1..Len(kept) |-> clean_text(Strip(kept[i].text))]

\* f"## Page {page_num + 1}"
Heading(page_num) == <<"#", "#", " ", "P", "a", "g", "e", " ">> \o ToDec(page_num + 1)

TablesTitle == <<"#", "#", "#", " ", "T", "a", "b", "l", "e", "s", NL>>
TextTitle ==
    <<"#", "#", "#", " ", "T", "e", "x", "t", " ", "C", "o", "n", "t", "e", "n", "t", NL>>
ErrorLabel ==
    <<NL, NL, "P", "r", "o", "c", "e", "s", "s", "i", "n", "g", " ",
      "e", "r", "r", "o", "r", ":", " ">>

\* lines 135-142: the section of a page from its tables and its text parts
Render(page_num, tm, tp) ==
    Join(<<Heading(page_num)>>
         \o (IF tm # <<>> THEN <<TablesTitle \o Join(tm, <<NL>>)>> ELSE <<>>)
         \o (IF tp # <<>> THEN <<TextTitle \o Join(tp, <<NL, NL>>)>> ELSE <<>>),
         <<NL, NL>>)

\* lines 98-142
Section(p, page_num) == Render(page_num, table_markdowns(p), page_text_parts(p))

\* lines 88-142, the body of the try: it returns the section, or a call raises
TryBody(p, page_num) ==
    IF p.raises THEN [raised |-> TRUE, value |-> p.desc]
    ELSE [raised |-> FALSE, value |-> Section(p, page_num)]

\* lines 143-144: what the except clause returns for an exception described by desc
ErrorSection(page_num, desc) == Heading(page_num) \o ErrorLabel \o desc

\* lines 87 and 143: an exception of the body is caught and becomes a return value
Caught(o, page_num) ==
    IF o.raised THEN [raised |-> FALSE, value |-> ErrorSection(page_num, o.value)]
    ELSE o

\* a plausible slip of lines 87 and 143: the body runs without the try
process_single_page_unguarded(p, page_num) == TryBody(p, page_num)

\* lines 85-144: what the call ends with, a return value or an exception
process_single_page(p, page_num) == Caught(TryBody(p, page_num), page_num)

-----------------------------------------------------------------------------
(* The state of the service before any request.                            *)

\* how many connections the server holds at once
NSlots == 2
Slots == 1..NSlots

NoResponse == [kind |-> "none"]

\* a request slot before a request arrives on it
NoHeader == [kind |-> "absent", value |-> 0]
NoFile == [present |-> FALSE, name |-> <<>>]
IdleSlot ==
    [pc |-> "idle", content_length |-> NoHeader, filename |-> NoFile,
     total_pages |-> 0, doc |-> <<>>, futures |-> <<>>, completed |-> <<>>,
     body_read |-> FALSE, limiter_ran |-> FALSE, handler_ran |-> FALSE,
     parser_calls |-> 0, doc_open |-> FALSE, buffers |-> 0, dispatched |-> 0,
     response |-> NoResponse]

ServerIdle ==
    /\ req = [r \in Slots |-> IdleSlot]
    /\ queue = <<>>
    /\ running = {}
    /\ hits = 0

-----------------------------------------------------------------------------
(* SpecClean: clean_text applied to every short string over an alphabet    *)
(* that holds each character class its rules tell apart.                   *)

MaxLen == 5
CleanAlphabet == {"a", "b", " ", "-", NL, SHY}
Strings(alphabet, n) == UNION {[1..k -> alphabet] : k \in 0..n}

\* the server's variables, idle, and the variables of the other specifications
NotCleaned == [called |-> FALSE, value |-> <<>>]
NotRendered == [called |-> FALSE, table_markdowns |-> <<>>, table_bboxes |-> <<>>,
                page_text_parts |-> <<>>, result |-> <<>>]
NoPage == [raises |-> FALSE, desc |-> <<>>, lines_tabs |-> <<>>, text_tabs |-> <<>>,
           blocks |-> <<>>]

InitClean ==
    /\ text \in Strings(CleanAlphabet, MaxLen)
    /\ cleaned = NotCleaned
    /\ page = NoPage
    /\ rendered = NotRendered
    /\ ServerIdle

CallCleanText ==
    /\ ~cleaned.called
    /\ cleaned' = [called |-> TRUE, value |-> clean_text(text)]
    /\ UNCHANGED <<text, page, rendered, server>>

NextClean == CallCleanText

SpecClean == InitClean /\ [][NextClean]_vars

\* whether sub occurs in s as a contiguous piece
Contains(s, sub) ==
    \E i \in 1..(Len(s) - Len(sub) + 1) : SubSeq(s, i, i + Len(sub) - 1) = sub

\* a single space of the input right after a lowercase letter and right before two
\* lowercase letters
SpaceInWord(i) == i \in 1..Len(text) /\ text[i] = " " /\ GapMatch(text, i)

-----------------------------------------------------------------------------
(* SpecPage: process_single_page applied to pages whose tables straddle    *)
(* both limits of the validation heuristic and whose text blocks lie on,   *)
(* beside and away from the tables.                                        *)

MaxBlocks == 2
\* how far below ResidueLimit the lengths of the long table cell start
Window == 20

Rep(c, n) == [i \in 1..n |-> c]
Str3(a, b, c) == <<a, b, c>>

\* where the tables of the pages lie
BoxA == <<0, 0, 10, 10>>
BoxB == <<20, 0, 30, 10>>

\* a grid of two rows whose second column is blank in every row; its first cell
\* holds d digits and l letters
Grid(d, l) ==
    << <<Rep("1", d) \o Rep("a", l), <<>>>>,
       <<Str3("a", "-", "b"), <<" ">>>> >>

DigitCounts == 0..(DigitLimit + 2)
LetterCounts == {0, 1} \cup ((ResidueLimit - Window)..(ResidueLimit - 1))
                \cup {ResidueLimit + 100}

\* small tables: nothing extracted, only blank cells, a line break inside a cell
SmallGrids ==
    { <<>>,
      << <<<<>>, <<" ">>>> >>,
      << <<Str3("x", NL, "y"), <<"7">>>>, <<<<>>, <<>>>>, <<<<"|">>, <<"-">>>> >> }

\* a grid of prose: long and without digits, which the heuristic discards
ProseGrid == << <<Rep("a", ResidueLimit)>> >>

BlockBoxes ==
    { <<2, 2, 4, 4>>,        \* on BoxA
      <<10, 1, 12, 3>>,      \* touches BoxA's right edge
      <<22, 0, 24, 2>>,      \* on BoxB
      <<12, 0, 14, 2>> }     \* away from both
BlockTexts ==
    { <<"a", "b", "c", "d", "e", "f">>,
      <<"a", "b", "c", "d", "e">>,
      <<"a", " ", " ", "b", " ", "c">>,
      <<" ", "a", "b", "-", NL, "c", "d", " ">>,
      <<"-", "-", "-", SHY, SHY, SHY>> }
Blocks == [bbox : BlockBoxes, text : BlockTexts]

FixedBlocks ==
    << [bbox |-> <<12, 0, 14, 2>>, text |-> <<"a", "b", "c", "d", "e", "f">>],
       [bbox |-> <<2, 2, 4, 4>>, text |-> <<"a", "b", "c", "d", "e", "f">>] >>

\* pages that vary the tables
TablePages ==
    { [raises |-> FALSE, desc |-> <<>>,
       lines_tabs |-> IF byLines THEN tabs ELSE <<>>,
       text_tabs |-> IF byLines THEN <<[data |-> ProseGrid, bbox |-> BoxB]>> ELSE tabs,
       blocks |-> FixedBlocks] :
      byLines \in BOOLEAN,
      tabs \in { <<[data |-> Grid(d, l), bbox |-> BoxA], [data |-> g, bbox |-> BoxB]>> :
                 d \in DigitCounts, l \in LetterCounts, g \in SmallGrids } }

\* pages that vary the blocks: the table at BoxA is kept, the one at BoxB discarded
BlockPages ==
    { [raises |-> FALSE, desc |-> <<>>,
       lines_tabs |-> <<[data |-> Grid(1, 1), bbox |-> BoxA],
                        [data |-> ProseGrid, bbox |-> BoxB]>>,
       text_tabs |-> <<>>,
       blocks |-> bs] :
      bs \in Strings(Blocks, MaxBlocks) }

\* pages on which a PyMuPDF call raises
RaisingPages ==
    { [raises |-> TRUE, desc |-> d, lines_tabs |-> <<>>, text_tabs |-> <<>>,
       blocks |-> <<>>] : d \in {<<>>, Str3("b", "a", "d")} }

InitPage ==
    /\ page \in TablePages \cup BlockPages \cup RaisingPages
    /\ rendered = NotRendered
    /\ text = <<>>
    /\ cleaned = NotCleaned
    /\ ServerIdle

\* one call of process_single_page on the page, as page 0 of its document
CallProcessSinglePage ==
    /\ ~rendered.called
    /\ rendered' = [called |-> TRUE,
                    table_markdowns |-> IF page.raises THEN <<>> ELSE table_markdowns(page),
                    table_bboxes |-> IF page.raises THEN <<>> ELSE table_bboxes(page),
                    page_text_parts |-> IF page.raises THEN <<>> ELSE page_text_parts(page),
                    result |-> process_single_page(page, 0).value]
    /\ UNCHANGED <<text, cleaned, page, server>>

NextPage == CallProcessSinglePage

SpecPage == InitPage /\ [][NextPage]_vars

Range(s) == {s[i] : i \in 1..Len(s)}

\* C8: every detected table that renders to non-empty markdown is accepted (its
\* markdown and bounding box are kept) if and only if its residue, the markdown
\* without '|' and '-', holds more than 5 digits or is shorter than 200 characters.
C8_TableAcceptedIff ==
    (rendered.called /\ ~page.raises) =>
        \A i \in 1..Len(FoundTables(page)) :
            LET t == FoundTables(page)[i]
                md == TableMarkdown(t.data)
                residue == SelectSeq(md, LAMBDA c : c # "|" /\ c # "-")
                digits == Cardinality({k \in 1..Len(residue) : residue[k] \in Digits})
            IN  md # <<>> =>
                    /\ (t.bbox \in Range(rendered.table_bboxes))
                           <=> (digits > 5 \/ Len(residue) < 200)
                    /\ (md \in Range(rendered.table_markdowns))
                           <=> (digits > 5 \/ Len(residue) < 200)

\* the residue of the page's first detected table
FirstResidue == Residue(TableMarkdown(FoundTables(page)[1].data))

\* a table of 5 digits and exactly 200 residue characters was discarded
C8_Witness ==
    /\ rendered.called
    /\ ~page.raises
    /\ FoundTables(page) # <<>>
    /\ Len(FirstResidue) = 200
    /\ DigitCount(FirstResidue) = 5
    /\ BoxA \notin Range(rendered.table_bboxes)

\* whether block b's rectangle overlaps a rectangle of boxes with positive area
OnSomeBox(b, boxes) ==
    \E r \in boxes :
        /\ b.bbox[1] < b.bbox[3] /\ b.bbox[2] < b.bbox[4]
        /\ r[1] < r[3] /\ r[2] < r[4]
        /\ b.bbox[1] < r[3] /\ r[1] < b.bbox[3]
        /\ b.bbox[2] < r[4] /\ r[2] < b.bbox[4]

\* block j comes before block i in (top, then left) order, input order on a tie
Before(j, i) ==
    LET a == page.blocks[j].bbox
        b == page.blocks[i].bbox
    IN  \/ a[2] < b[2]
        \/ a[2] = b[2] /\ a[1] < b[1]
        \/ a[2] = b[2] /\ a[1] = b[1] /\ j < i

\* the normalized texts of the blocks Wanted picks, in (top, then left) order
PartsOf(Wanted(_)) ==
    LET K == {i \in 1..Len(page.blocks) : Wanted(page.blocks[i])}
        rank(i) == Cardinality({j \in K : Before(j, i)})
    IN  [n \in 1..Cardinality(K) |->
            clean_text(page.blocks[CHOOSE i \in K : rank(i) = n - 1].text)]

\* C9 as stated: a block contributes to the page's Text Content if and only if its
\* rectangle intersects no accepted table rectangle and its cleaned (normalized)
\* text is longer than 5 characters; the kept blocks appear as their normalized
\* texts in (top, then left) order.
C9_KeptIffCleanedLong ==
    (rendered.called /\ ~page.raises) =>
        LET wanted(b) == /\ ~OnSomeBox(b, Range(rendered.table_bboxes))
                         /\ Len(clean_text(b.text)) > 5
        IN  rendered.page_text_parts = PartsOf(wanted)

\* the text of b without its leading and trailing blanks
Trimmed(b) ==
    LET inner == {i \in 1..Len(b.text) : b.text[i] \notin {" ", NL, "\t"}}
    IN  IF inner = {} THEN <<>>
        ELSE SubSeq(b.text, CHOOSE i \in inner : \A j \in inner : i <= j,
                            CHOOSE i \in inner : \A j \in inner : i >= j)

\* C9 as amended: a block contributes if and only if its rectangle intersects no
\* accepted table rectangle and its text, stripped of leading and trailing blanks
\* but not yet normalized, is longer than 5 characters; the kept blocks appear as
\* their normalized texts in (top, then left) order.
C9_KeptIffStrippedLong ==
    (rendered.called /\ ~page.raises) =>
        LET wanted(b) == /\ ~OnSomeBox(b, Range(rendered.table_bboxes))
                         /\ Len(Trimmed(b)) > 5
        IN  rendered.page_text_parts = PartsOf(wanted)

\* two blocks given bottom first were both kept, one beside the kept table; another
\* page's block on the kept table was dropped
C9_Witness ==
    /\ rendered.called
    /\ Len(page.blocks) = 2
    /\ Before(2, 1)
    /\ Len(rendered.page_text_parts) = 2
    /\ rendered.table_bboxes = <<BoxA>>
    /\ page.blocks[1].bbox[1] = BoxA[3]
    /\ page.blocks[2].bbox[1] >= BoxB[1]

-----------------------------------------------------------------------------
(* The service: limit_upload_size (66-75), the rate limited convert_pdf     *)
(* (146-195) and executor (63).  The coroutines of the requests run on one *)
(* event loop, so what a request does between two awaits is one step; the  *)
(* page tasks run in executor's worker processes, beside the loop.         *)

\* the settings of lines 27-33 are read from the environment: the deployment checked
\* here sets MAX_WORKERS=2 and MAX_PAGES=2 and leaves the others at their defaults
MAX_WORKERS == 2
MAX_PAGES == 2
MAX_FILE_SIZE == 50 * 1024 * 1024
\* RATE_LIMIT is "2/minute": two requests per window and address
RateLimitCount == 2

SEP == <<NL, "-", "-", "-", NL>>

\* the responses of the code; a detail is an f-string, its template and its values
TooLargeResponse ==
    [kind |-> "error", status |-> 413,
     detail |-> [template |-> "File too large. Maximum allowed size is {0}MB.",
                 args |-> <<ToDec(MAX_FILE_SIZE \div (1024 * 1024))>>]]
NotPdfResponse ==
    [kind |-> "error", status |-> 400,
     detail |-> [template |-> "Only PDF files are allowed.", args |-> <<>>]]
TooManyPagesResponse(total_pages) ==
    [kind |-> "error", status |-> 413,
     detail |-> [template |-> "PDF too long ({0} pages). Max is {1}.",
                 args |-> <<ToDec(total_pages), ToDec(MAX_PAGES)>>]]
\* what slowapi's _rate_limit_exceeded_handler answers RateLimitExceeded with
RateLimitedResponse ==
    [kind |-> "error", status |-> 429,
     detail |-> [template |-> "Rate limit exceeded: {0}",
                 args |-> <<<<"2", "/", "m", "i", "n", "u", "t", "e">>>>]]
InternalErrorResponse ==
    [kind |-> "error", status |-> 500,
     detail |-> [template |-> "An error occurred during conversion.", args |-> <<>>]]
\* an exception no handler of the code catches leaves the application
Unhandled(exception) == [kind |-> "unhandled", exception |-> exception]
SuccessResponse(results) ==
    [kind |-> "success", status |-> 200,
     pages_processed |-> Len(results),
     content |-> Join(results, SEP)]
\* the content-length headers a request may carry: none, one that is no number,
\* the limit, one byte more
ContentLengths ==
    { NoHeader,
      [kind |-> "malformed", value |-> 0],
      [kind |-> "int", value |-> MAX_FILE_SIZE],
      [kind |-> "int", value |-> MAX_FILE_SIZE + 1] }

\* the filenames of the uploaded part: None, a .pdf name, another name
Filenames ==
    { NoFile,
      [present |-> TRUE, name |-> <<"a", ".", "p", "d", "f">>],
      [present |-> TRUE, name |-> <<"a", ".", "t", "x", "t">>] }

\* the pages of the uploaded documents, by name.  "good": a table, a block on the
\* table, and below it a block that is a rule followed by soft hyphens and a block of
\* text.  "bad": a page a PyMuPDF call raises on.
GoodPage ==
    [raises |-> FALSE, desc |-> <<>>,
     lines_tabs |-> <<[data |-> Grid(1, 1), bbox |-> BoxA]>>, text_tabs |-> <<>>,
     blocks |-> << [bbox |-> <<0, 20, 5, 21>>, text |-> <<"a", "b", "c", "d", "e", "f">>],
                   [bbox |-> <<2, 2, 4, 4>>, text |-> <<"a", "b", "c", "d", "e", "f">>],
                   [bbox |-> <<0, 12, 5, 13>>, text |-> <<"-", "-", "-", SHY, SHY, SHY>>] >>]
BadPage ==
    [raises |-> TRUE, desc |-> Str3("b", "a", "d"), lines_tabs |-> <<>>,
     text_tabs |-> <<>>, blocks |-> <<>>]
ServerPages == {"good", "bad"}
PageOf(name) == IF name = "good" THEN GoodPage ELSE BadPage

\* what process_single_page ends with for each page and page number
PageResult ==
    [name \in ServerPages, page_num \in 0..MAX_PAGES |->
        process_single_page(PageOf(name), page_num)]

\* s.endswith(suffix)
EndsWith(s, suffix) ==
    Len(s) >= Len(suffix) /\ SubSeq(s, Len(s) - Len(suffix) + 1, Len(s)) = suffix

\* a plausible slip of line 70: a declared length equal to the limit is refused
TooLargeInclusive(n) == n >= MAX_FILE_SIZE

\* line 70, for a content-length that is a number
TooLarge(n) == n > MAX_FILE_SIZE

\* lines 66-75 for a POST /convert: a new request arrives on the free connection r
\* and limit_upload_size runs up to its return or its await of call_next
Receive(r) ==
    /\ req[r].pc = "idle"
    /\ \A q \in Slots : q < r => req[q].pc # "idle"
    /\ \E h \in ContentLengths :
        LET arrived == [IdleSlot EXCEPT !.content_length = h]
        IN  req' = [req EXCEPT ![r] =
                IF h.kind = "absent" THEN [arrived EXCEPT !.pc = "routing"]
                ELSE IF h.kind = "malformed"
                THEN [arrived EXCEPT !.pc = "done",
                                     !.response = Unhandled("ValueError")]
                ELSE IF TooLarge(h.value)
                THEN [arrived EXCEPT !.pc = "done", !.response = TooLargeResponse]
                ELSE [arrived EXCEPT !.pc = "routing"]]
    /\ UNCHANGED <<pure, queue, running, hits>>

\* line 147: limiter admits RateLimitCount requests per window
RateExceeded == hits >= RateLimitCount

\* lines 146-156: the framework reads the form for the file parameter, limiter
\* counts the request, convert_pdf checks the filename and awaits file.read().
\* The content-length header is not read again: the record drops it.
Route(r) ==
    /\ req[r].pc = "routing"
    /\ IF RateExceeded
       THEN /\ req' = [req EXCEPT ![r].pc = "done", ![r].content_length = NoHeader,
                                  ![r].body_read = TRUE,
                                  ![r].limiter_ran = TRUE,
                                  ![r].response = RateLimitedResponse]
            /\ UNCHANGED hits
       ELSE /\ hits' = hits + 1
            /\ \E f \in Filenames :
                LET entered == [req[r] EXCEPT !.content_length = NoHeader,
                                              !.body_read = TRUE, !.limiter_ran = TRUE,
                                              !.handler_ran = TRUE, !.filename = f]
                IN  req' = [req EXCEPT ![r] =
                        IF ~f.present
                        THEN [entered EXCEPT !.pc = "done",
                                             !.response = Unhandled("AttributeError")]
                        ELSE IF ~EndsWith(f.name, <<".", "p", "d", "f">>)
                        THEN [entered EXCEPT !.pc = "done", !.response = NotPdfResponse]
                        ELSE [entered EXCEPT !.pc = "reading"]]
    /\ UNCHANGED <<pure, queue, running>>

\* the window of the rate limit ends
WindowExpires ==
    /\ hits > 0
    /\ hits' = 0
    /\ UNCHANGED <<pure, req, queue, running>>

\* a plausible slip of lines 189-195: every exception becomes the generic error
HandlerExceptAll(exc) == InternalErrorResponse

\* lines 189-195: what convert_pdf answers when exc is raised inside its try
HandlerExcept(exc) ==
    IF exc.type = "HTTPException" THEN exc.response ELSE InternalErrorResponse

\* line 160
TooManyPages(total_pages) == total_pages > MAX_PAGES

\* the futures of a request's page tasks, in the order of the tasks
NewFutures(n) == [i \in 1..n |-> [done |-> FALSE, raised |-> FALSE, value |-> <<>>]]

\* lines 156-177: file.read() has returned; convert_pdf opens the document, checks
\* the page count, splits the pages and submits one task per page, up to its await
\* of asyncio.gather.  fitz.open, the split of page k and run_in_executor may raise;
\* the with statement closes the document on every way out.
Convert(r) ==
    /\ req[r].pc = "reading"
    /\ LET read == [req[r] EXCEPT !.parser_calls = 1]
           failed(rec, exc) ==
               [rec EXCEPT !.pc = "done", !.doc_open = FALSE,
                           !.response = HandlerExcept(exc)]
       IN  \/ /\ req' = [req EXCEPT ![r] = failed(read, [type |-> "Exception"])]
              /\ UNCHANGED <<pure, queue, running, hits>>
           \/ \E n \in 0..(MAX_PAGES + 1) :
                LET opened == [read EXCEPT !.total_pages = n, !.doc_open = TRUE]
                IN  IF TooManyPages(n)
                    THEN /\ req' = [req EXCEPT ![r] =
                                failed(opened, [type |-> "HTTPException",
                                                response |-> TooManyPagesResponse(n)])]
                         /\ UNCHANGED <<pure, queue, running, hits>>
                    ELSE \/ \E k \in 1..n :
                              /\ req' = [req EXCEPT ![r] =
                                     failed([opened EXCEPT !.buffers = k - 1],
                                            [type |-> "Exception"])]
                              /\ UNCHANGED <<pure, queue, running, hits>>
                         \/ /\ n > 0
                            /\ req' = [req EXCEPT ![r] =
                                   failed([opened EXCEPT !.buffers = n],
                                          [type |-> "Exception"])]
                            /\ UNCHANGED <<pure, queue, running, hits>>
                         \/ \E pages \in [1..n -> ServerPages] :
                              /\ req' = [req EXCEPT ![r] =
                                     [opened EXCEPT !.pc = "gathering", !.doc = pages,
                                                    !.doc_open = FALSE, !.buffers = n,
                                                    !.dispatched = n,
                                                    !.futures = NewFutures(n)]]
                              /\ queue' = queue \o [i \in 1..n |-> <<r, i>>]
                              /\ UNCHANGED <<pure, running, hits>>

\* a plausible slip of line 63: executor starts a task whether or not a worker is free
WorkerAlwaysFree == TRUE

\* line 63: executor has MAX_WORKERS worker processes
WorkerFree == Cardinality(running) < MAX_WORKERS

\* a free worker process takes the oldest queued task
StartTask ==
    /\ queue # <<>>
    /\ WorkerFree
    /\ running' = running \cup {Head(queue)}
    /\ queue' = Tail(queue)
    /\ UNCHANGED <<pure, req, hits>>

\* a future once its call has ended with outcome o
Settled(o) == [done |-> TRUE, raised |-> o.raised, value |-> o.value]

\* what the worker's call of process_single_page ends with for task t
TaskOutcome(t) == PageResult[req[t[1]].doc[t[2]], t[2] - 1]

\* a worker process ends process_single_page(t[0], t[1]) and the task's future is set
FinishTask(t) ==
    /\ t \in running
    /\ req' = [req EXCEPT ![t[1]].futures[t[2]] = Settled(TaskOutcome(t)),
                          ![t[1]].completed = Append(@, t[2])]
    /\ running' = running \ {t}
    /\ UNCHANGED <<pure, queue, hits>>

\* a plausible slip of lines 174-177: the results are taken as the tasks complete
GatherByCompletion(rec) ==
    [k \in 1..Len(rec.completed) |-> rec.futures[rec.completed[k]].value]

\* lines 174-177: asyncio.gather returns the results in the order of its arguments
Gather(rec) == [i \in 1..Len(rec.futures) |-> rec.futures[i].value]

\* lines 174-195: every task of the request is done, gather returns (or raises what
\* a task raised) and convert_pdf answers
Respond(r) ==
    /\ req[r].pc = "gathering"
    /\ \A i \in 1..Len(req[r].futures) : req[r].futures[i].done
    /\ req' = [req EXCEPT ![r].pc = "done",
                          ![r].response =
                              IF \E i \in 1..Len(req[r].futures) : req[r].futures[i].raised
                              THEN HandlerExcept([type |-> "Exception"])
                              ELSE SuccessResponse(Gather(req[r]))]
    /\ UNCHANGED <<pure, queue, running, hits>>

\* the response is sent and the connection is free for the next request
Close(r) ==
    /\ req[r].pc = "done"
    /\ req' = [req EXCEPT ![r] = IdleSlot]
    /\ UNCHANGED <<pure, queue, running, hits>>

Init ==
    /\ ServerIdle
    /\ text = <<>>
    /\ cleaned = NotCleaned
    /\ page = NoPage
    /\ rendered = NotRendered

Next ==
    \/ \E r \in Slots : Receive(r)
    \/ \E r \in Slots : Route(r)
    \/ WindowExpires
    \/ \E r \in Slots : Convert(r)
    \/ StartTask
    \/ \E t \in running : FinishTask(t)
    \/ \E r \in Slots : Respond(r)
    \/ \E r \in Slots : Close(r)

Spec == Init /\ [][Next]_vars

-----------------------------------------------------------------------------
(* The claims about the service.                                           *)

Done(r) == req[r].pc = "done"
Succeeded(r) == Done(r) /\ req[r].response.kind = "success"
InQueue(t) == \E k \in 1..Len(queue) : queue[k] = t
StartsWith(s, prefix) == Len(s) >= Len(prefix) /\ SubSeq(s, 1, Len(prefix)) = prefix

\* the section page page_num of a document must get, by the page's name: the try
\* body's section, or the heading and the error text with the exception's description
WantedSection ==
    [name \in ServerPages, page_num \in 0..MAX_PAGES |->
        IF PageOf(name).raises
        THEN <<"#", "#", " ", "P", "a", "g", "e", " ">> \o ToDec(page_num + 1)
             \o <<NL, NL, "P", "r", "o", "c", "e", "s", "s", "i", "n", "g", " ",
                  "e", "r", "r", "o", "r", ":", " ">>
             \o PageOf(name).desc
        ELSE Section(PageOf(name), page_num)]

\* C1: the content of every successful conversion is the page sections joined in
\* ascending page index, section k being the result of page index k and headed
\* "Page k+1", whatever the order the page tasks completed in.
C1_OrderedByIndex ==
    \A r \in Slots :
        Succeeded(r) =>
            LET n == req[r].total_pages
                sections == [k \in 1..n |-> PageResult[req[r].doc[k], k - 1].value]
            IN  /\ req[r].response.pages_processed = n
                /\ req[r].response.content = Join(sections, SEP)
                /\ \A k \in 1..n :
                       StartsWith(sections[k],
                                  <<"#", "#", " ", "P", "a", "g", "e", " ">> \o ToDec(k))

\* a conversion succeeded whose second page completed before its first
C1_Witness ==
    \E r \in Slots : Succeeded(r) /\ req[r].completed = <<2, 1>>

\* C2: a document of more than MAX_PAGES pages ends with the too-many-pages error
\* naming the observed count and MAX_PAGES, not with the generic error; the document
\* is released, no page buffer is split and no task dispatched.  A document of
\* exactly MAX_PAGES pages is not answered with that error.
C2_TooManyPagesRejected ==
    \A r \in Slots :
        /\ req[r].total_pages > MAX_PAGES =>
            /\ Done(r)
            /\ req[r].response.kind = "error"
            /\ req[r].response.status = 413
            /\ req[r].response.detail.template = "PDF too long ({0} pages). Max is {1}."
            /\ req[r].response.detail.args
                   = <<ToDec(req[r].total_pages), ToDec(MAX_PAGES)>>
            /\ ~req[r].doc_open
            /\ req[r].buffers = 0
            /\ req[r].dispatched = 0
            /\ req[r].futures = <<>>
            /\ ~\E i \in 1..req[r].total_pages : InQueue(<<r, i>>) \/ <<r, i>> \in running
        /\ (Done(r) /\ req[r].parser_calls = 1 /\ req[r].total_pages <= MAX_PAGES) =>
            (req[r].response.kind = "error" => req[r].response.status = 500)

\* a document of MAX_PAGES + 1 pages was rejected and one of MAX_PAGES pages converted
C2_Witness ==
    \E r, q \in Slots :
        /\ Done(r) /\ req[r].total_pages = MAX_PAGES + 1
        /\ Succeeded(q) /\ req[q].total_pages = MAX_PAGES

\* C3: a POST /convert whose declared content length exceeds MAX_FILE_SIZE is answered
\* with the payload-too-large rejection by limit_upload_size, before the body is read,
\* the rate limiter or the handler runs, fitz.open is called or a page task exists; a
\* declared length equal to MAX_FILE_SIZE is passed on.
C3_OversizeRejectedFirst ==
    \A r \in Slots :
        LET h == req[r].content_length
        IN  /\ (h.kind = "int" /\ h.value > MAX_FILE_SIZE) =>
                /\ Done(r)
                /\ req[r].response.kind = "error"
                /\ req[r].response.status = 413
                /\ req[r].response.detail.template
                       = "File too large. Maximum allowed size is {0}MB."
                /\ ~req[r].body_read
                /\ ~req[r].limiter_ran
                /\ ~req[r].handler_ran
                /\ req[r].parser_calls = 0
                /\ req[r].dispatched = 0
            /\ (h.kind = "int" /\ h.value = MAX_FILE_SIZE) => req[r].pc = "routing"

\* one request was rejected for one byte too many while one of exactly the limit
\* waits for its body
C3_Witness ==
    \E r, q \in Slots :
        /\ Done(r) /\ req[r].content_length.value = MAX_FILE_SIZE + 1
        /\ req[q].pc = "routing" /\ req[q].content_length.value = MAX_FILE_SIZE

\* C4: whichever pages of a request raise inside process_single_page, the request
\* whose n pages were dispatched returns success with n sections: a failing page's
\* section is its heading and the error text with the exception's description, every
\* other page's section is what it is when no page fails.
C4_PageFailuresContained ==
    \A r \in Slots :
        (Done(r) /\ req[r].dispatched > 0) =>
            LET n == req[r].dispatched
            IN  /\ req[r].response.kind = "success"
                /\ req[r].response.pages_processed = n
                /\ req[r].response.content
                       = Join([k \in 1..n |-> WantedSection[req[r].doc[k], k - 1]], SEP)

\* a request with a failing first page and a good second page was answered
C4_Witness ==
    \E r \in Slots : Succeeded(r) /\ req[r].doc = <<"bad", "good">>

\* C5: every request ends in exactly one of: success, a classified client input
\* error (invalid file type, payload too large, too many pages, rate limited), or the
\* generic internal error with the fixed message.
C5_ThreeOutcomes ==
    \A r \in Slots :
        Done(r) =>
            \/ req[r].response.kind = "success"
            \/ req[r].response \in {NotPdfResponse, TooLargeResponse, RateLimitedResponse,
                                    InternalErrorResponse}
            \/ /\ req[r].response.kind = "error"
               /\ req[r].response.status = 413
               /\ req[r].response.detail.template
                      = "PDF too long ({0} pages). Max is {1}."

\* how often sub occurs in s
CountOcc(s, sub) ==
    Cardinality({i \in 1..(Len(s) - Len(sub) + 1) : SubSeq(s, i, i + Len(sub) - 1) = sub})

\* C6: in every successful conversion of at least one page, whatever the sections
\* contain, the separator occurs in content exactly pages_processed - 1 times.
C6_SeparatorCount ==
    \A r \in Slots :
        (Succeeded(r) /\ req[r].response.pages_processed >= 1) =>
            CountOcc(req[r].response.content, SEP) = req[r].response.pages_processed - 1

\* C7: at every moment at most MAX_WORKERS page tasks execute, over all requests;
\* every task submitted for a request that awaits its results is queued, executing
\* or done, exactly one of the three, and a queued task has not run.
C7_PoolBounded ==
    /\ Cardinality(running) <= MAX_WORKERS
    /\ \A r \in Slots :
        req[r].pc = "gathering" =>
            \A i \in 1..req[r].dispatched :
                /\ Cardinality({k \in 1..Len(queue) : queue[k] = <<r, i>>})
                     + (IF <<r, i>> \in running THEN 1 ELSE 0)
                     + (IF req[r].futures[i].done THEN 1 ELSE 0) = 1
    /\ \A t \in running : req[t[1]].pc = "gathering" /\ t[2] \in 1..req[t[1]].dispatched
    /\ \A k \in 1..Len(queue) :
           req[queue[k][1]].pc = "gathering" /\ queue[k][2] \in 1..req[queue[k][1]].dispatched

\* every worker is busy with tasks of one request while the tasks of another wait
C7_Witness ==
    /\ Cardinality(running) = MAX_WORKERS
    /\ queue # <<>>
    /\ \E t \in running : t[1] # Head(queue)[1]

====
